---- MODULE Spec2Model ----
(***************************************************************************)
(* The layers contract of import-linter                                    *)
(* (src/importlinter/contracts/layers.py): LayersContract.check, its       *)
(* helpers, and the older LayersContract._alt_check, over a caller-owned   *)
(* import graph.                                                           *)
(*                                                                         *)
(* A module name is the sequence of its dotted components:                 *)
(* "c1.high.a" is <<"c1", "high", "a">>.  ".".join([container, name]) is   *)
(* the concatenation of the two component sequences.                       *)
(*                                                                         *)
(* A graph is a record                                                     *)
(*   modules  : the set of nodes,                                          *)
(*   squashed : the nodes added with is_squashed=True,                     *)
(*   details  : a function from the edges <<importer, imported>> to the    *)
(*              set of line numbers recorded for the edge (empty for an    *)
(*              edge added without a line number).                         *)
(***************************************************************************)
EXTENDS Naturals, Sequences, FiniteSets, TLC

VARIABLES
    layers,            \* self.layers: sequence of [name, is_optional]
    containers,        \* self.containers: sequence of module names; <<>> when absent
    ignore_imports,    \* self.ignore_imports: set of <<importer, imported>>
    root_packages,     \* self.session_options["root_packages"]
    graph,             \* the caller's import graph
    original,          \* the caller's graph as it was when the handler was called
    pc,                \* position in the running handler
    method,            \* the handler that was called: "check" or "_alt_check"
    is_kept,           \* local is_kept
    removed_imports,   \* local removed_imports (edge -> line numbers)
    pairs,             \* what _generate_module_permutations has still to yield
    yielded,           \* the pairs the generator has yielded so far
    cur,               \* the pair of the running loop iteration
    temp_graph,        \* local temp_graph of the running loop iteration
    high_level_invalid_chains,
    result,            \* the ContractCheck returned
    error              \* the exception that left the handler, "none" otherwise

vars == <<layers, containers, ignore_imports, root_packages, graph, original, pc,
          method, is_kept, removed_imports, pairs, yielded, cur, temp_graph,
          high_level_invalid_chains, result, error>>

(***************************************************************************)
(* Bounds of the model.                                                    *)
(***************************************************************************)
MaxEdges == 2
MaxIgnore == 1

LineSets == {{10}, {5, 10}}

(***************************************************************************)
(* importlinter.domain.imports.Module                                      *)
(***************************************************************************)
IsPrefix(p, m) ==
    /\ Len(p) <= Len(m)
    /\ \A i \in 1..Len(p) : p[i] = m[i]

\* Module(self).is_descendant_of(other): self is other or lies under it.
is_descendant_of(self, other) == IsPrefix(other, self)

\* Module(name).root_package_name
root_package_name(m) == m[1]

(***************************************************************************)
(* The import graph (grimp's ImportGraph over a networkx DiGraph).         *)
(***************************************************************************)
EmptyGraph == [modules |-> {}, squashed |-> {}, details |-> <<>>]

Imports(g) == DOMAIN g.details

add_module(g, m, is_squashed) ==
    [g EXCEPT !.modules = @ \cup {m},
              !.squashed = IF is_squashed THEN @ \cup {m} ELSE @]

\* Removal cascades to every edge of the node.
remove_module(g, m) ==
    [modules  |-> g.modules \ {m},
     squashed |-> g.squashed \ {m},
     details  |-> [e \in {x \in Imports(g) : x[1] # m /\ x[2] # m} |-> g.details[e]]]

\* add_import(importer, imported, line numbers): lines == {} is the call
\* without a line number.
add_import(g, importer, imported, lines) ==
    [modules  |-> g.modules \cup {importer, imported},
     squashed |-> g.squashed,
     details  |-> [e \in Imports(g) \cup {<<importer, imported>>} |->
                     IF e = <<importer, imported>>
                     THEN (IF e \in Imports(g) THEN g.details[e] ELSE {}) \cup lines
                     ELSE g.details[e]]]

remove_import(g, importer, imported) ==
    [g EXCEPT !.details = [e \in Imports(g) \ {<<importer, imported>>} |-> g.details[e]]]

get_import_details(g, importer, imported) ==
    IF <<importer, imported>> \in Imports(g) THEN g.details[<<importer, imported>>] ELSE {}

find_modules_directly_imported_by(g, m) == {e[2] : e \in {x \in Imports(g) : x[1] = m}}

find_modules_that_directly_import(g, m) == {e[1] : e \in {x \in Imports(g) : x[2] = m}}

find_descendants(g, m) == {x \in g.modules : IsPrefix(m, x) /\ x # m}

\* The paths of exactly k edges from s to t.
RECURSIVE PathsOfLength(_, _, _, _)
PathsOfLength(g, s, t, k) ==
    IF k = 0
    THEN (IF s = t THEN {<<s>>} ELSE {})
    ELSE UNION {{<<s>> \o p : p \in PathsOfLength(g, n, t, k - 1)} :
                  n \in find_modules_directly_imported_by(g, s)}

RECURSIVE ShortestFrom(_, _, _, _)
ShortestFrom(g, s, t, k) ==
    IF k > Cardinality(g.modules)
    THEN {}
    ELSE LET ps == PathsOfLength(g, s, t, k)
         IN IF ps # {} THEN ps ELSE ShortestFrom(g, s, t, k + 1)

\* networkx.all_shortest_paths(G, source, target), as a set; {} stands for
\* NetworkXNoPath.
all_shortest_paths(g, source, target) ==
    IF source \in g.modules /\ target \in g.modules
    THEN ShortestFrom(g, source, target, 0)
    ELSE {}

\* graph.find_shortest_chains(importer, imported)
find_shortest_chains(g, importer, imported) == all_shortest_paths(g, importer, imported)

\* list(<iterable>): the lists the iteration can give.  The paths come in the
\* order of the graph's adjacency, which follows the iteration of sets of
\* strings and so differs from one process to the next: every order occurs.
RECURSIVE Orderings(_)
Orderings(S) ==
    IF S = {} THEN {<<>>}
    ELSE UNION {{<<x>> \o rest : rest \in Orderings(S \ {x})} : x \in S}

\* The values a chain is made of: a module name (str) or a list.
PyStr(m) == [type |-> "str", value |-> m]
PyList(xs) == [type |-> "list", value |-> xs]

(***************************************************************************)
(* importlinter.domain.helpers                                             *)
(***************************************************************************)
\* helpers.pop_imports: [graph, removed]
RECURSIVE pop_imports_loop(_, _, _)
pop_imports_loop(g, todo, removed) ==
    IF todo = {} THEN [graph |-> g, removed |-> removed]
    ELSE LET e == CHOOSE x \in todo : TRUE
             d == get_import_details(g, e[1], e[2])
         IN pop_imports_loop(remove_import(g, e[1], e[2]), todo \ {e},
                             [x \in DOMAIN removed \cup {e} |->
                                 IF x = e THEN d ELSE removed[x]])

pop_imports(g, imports) == pop_imports_loop(g, imports, <<>>)

\* helpers.add_imports
RECURSIVE add_imports_loop(_, _, _)
add_imports_loop(g, removed, todo) ==
    IF todo = {} THEN g
    ELSE LET e == CHOOSE x \in todo : TRUE
         IN add_imports_loop(add_import(g, e[1], e[2], removed[e]), removed, todo \ {e})

add_imports(g, removed) == add_imports_loop(g, removed, DOMAIN removed)

(***************************************************************************)
(* LayersContract                                                          *)
(***************************************************************************)
\* _module_from_layer(layer, container); container <<>> is None.
_module_from_layer(layer, container) ==
    IF container # <<>>
    THEN container \o layer.name
    ELSE layer.name

\* The inner loop as it would be over the next layer alone.
LowerLayerLoop_adjacent_only(g, container, index, j) ==
    IF j > Len(layers) \/ j > index + 1 THEN <<>>
    ELSE LET higher_layer_module == _module_from_layer(layers[index], container)
             lower_layer_module == _module_from_layer(layers[j], container)
         IN IF lower_layer_module \notin g.modules
            THEN <<>>
            ELSE <<[higher |-> higher_layer_module, lower |-> lower_layer_module]>>

\* _generate_module_permutations: the inner loop, over self.layers[index + 1:].
RECURSIVE LowerLayerLoop(_, _, _, _)
LowerLayerLoop(g, container, index, j) ==
    IF j > Len(layers) THEN <<>>
    ELSE LET higher_layer_module == _module_from_layer(layers[index], container)
             lower_layer_module == _module_from_layer(layers[j], container)
         IN (IF lower_layer_module \notin g.modules
             THEN <<>>
             ELSE <<[higher |-> higher_layer_module, lower |-> lower_layer_module]>>)
            \o LowerLayerLoop(g, container, index, j + 1)

\* _generate_module_permutations: the loop over enumerate(self.layers).
RECURSIVE HigherLayerLoop(_, _, _)
HigherLayerLoop(g, container, index) ==
    IF index > Len(layers) THEN <<>>
    ELSE (IF _module_from_layer(layers[index], container) \notin g.modules
          THEN <<>>
          ELSE LowerLayerLoop(g, container, index, index + 1))
         \o HigherLayerLoop(g, container, index + 1)

RECURSIVE ContainerLoop(_, _, _)
ContainerLoop(g, quasi_containers, k) ==
    IF k > Len(quasi_containers) THEN <<>>
    ELSE HigherLayerLoop(g, quasi_containers[k], 1) \o ContainerLoop(g, quasi_containers, k + 1)

\* _generate_module_permutations(graph): everything the generator yields, in order.
_generate_module_permutations(g) ==
    LET quasi_containers == IF containers # <<>> THEN containers ELSE << <<>> >>
    IN ContainerLoop(g, quasi_containers, 1)

\* _squash_package: the loop that removes the package's modules and records
\* the imports that cross the package's boundary.
RECURSIVE SquashLoop(_, _, _, _, _)
SquashLoop(g, package_name, todo, that_import, imported_by) ==
    IF todo = {}
    THEN [graph |-> g,
          modules_that_import_package |-> that_import,
          modules_imported_by_package |-> imported_by]
    ELSE LET m == CHOOSE x \in todo : TRUE
         IN SquashLoop(remove_module(g, m), package_name, todo \ {m},
                that_import \cup {x \in find_modules_that_directly_import(g, m) :
                                    ~is_descendant_of(x, package_name)},
                imported_by \cup {x \in find_modules_directly_imported_by(g, m) :
                                    ~is_descendant_of(x, package_name)})

RECURSIVE AddImportsTo(_, _, _)
AddImportsTo(g, importers, imported) ==
    IF importers = {} THEN g
    ELSE LET m == CHOOSE x \in importers : TRUE
         IN AddImportsTo(add_import(g, m, imported, {}), importers \ {m}, imported)

RECURSIVE AddImportsFrom(_, _, _)
AddImportsFrom(g, importer, imported) ==
    IF imported = {} THEN g
    ELSE LET m == CHOOSE x \in imported : TRUE
         IN AddImportsFrom(add_import(g, importer, m, {}), importer, imported \ {m})

\* _squash_package without its last loop (lines 149-150).
_squash_package_without_outgoing(package_name, g) ==
    LET package_modules == {package_name} \cup find_descendants(g, package_name)
        r == SquashLoop(g, package_name, package_modules, {}, {})
        g1 == add_module(r.graph, package_name, TRUE)
    IN AddImportsTo(g1, r.modules_that_import_package, package_name)

\* _squash_package(package_name, graph): the graph afterwards.
_squash_package(package_name, g) ==
    LET package_modules == {package_name} \cup find_descendants(g, package_name)
        r == SquashLoop(g, package_name, package_modules, {}, {})
        g1 == add_module(r.graph, package_name, TRUE)
        g2 == AddImportsTo(g1, r.modules_that_import_package, package_name)
    IN AddImportsFrom(g2, package_name, r.modules_imported_by_package)

RECURSIVE RemoveModules(_, _)
RemoveModules(g, todo) ==
    IF todo = {} THEN g
    ELSE LET m == CHOOSE x \in todo : TRUE
         IN RemoveModules(remove_module(g, m), todo \ {m})

\* _remove_package(package_name, graph): the graph afterwards.  Line 153 puts
\* the value object Module(package_name), not the name, beside the names of
\* the descendants; the nodes of the graph are names, no name equals a Module,
\* and remove_module of something that is no node does nothing: the
\* descendants are removed and the package's own node stays.
_remove_package(package_name, g) ==
    RemoveModules(g, find_descendants(g, package_name))

\* check, lines 81-84: "Delete all other layers", for the pair p.  The
\* container is always self.containers[0].
RECURSIVE DeleteOtherLayers(_, _, _)
DeleteOtherLayers(g, p, k) ==
    IF k > Len(layers) THEN g
    ELSE LET module == _module_from_layer(layers[k], containers[1])
         IN DeleteOtherLayers(
                IF module \notin {p.higher, p.lower} THEN _remove_package(module, g) ELSE g,
                p, k + 1)

\* check, lines 86-95: the coarse chains of the pair p on the squashed and pruned
\* clone: the lists all_shortest_paths can give (the empty list on
\* NetworkXNoPath), each path a list of module names.
LayerChainData(g, p) ==
    {[i \in 1..Len(paths) |-> PyList(paths[i])] :
        paths \in Orderings(all_shortest_paths(g, p.lower, p.higher))}

\* The records of one chain of module names: lines 200-205 (and 376-383).
ChainData(g, chain) ==
    [i \in 1..(Len(chain) - 1) |->
        [importer |-> chain[i], imported |-> chain[i + 1],
         line_numbers |-> get_import_details(g, chain[i], chain[i + 1])]]

\* _determine_specific_chains, the loop of lines 161-192, from the k-th chain
\* on.  A chain of two items is passed on as it is (lines 162-164).  Otherwise:
\*   - with fewer than two items, high_level_invalid_chain[1] (line 169; [0]
\*     at line 167 for the empty chain) is out of range: IndexError;
\*   - the graph is asked for the importers of the second item (line 168) and,
\*     later, for the imports of the second-to-last (line 177): an item that is
\*     a list cannot be hashed, TypeError;
\*   - each candidate is tested with is_descendant_of(starting_package)
\*     (lines 174, 183), and starting_package is an item of the chain, a str or
\*     a list, never a Module: the first test raises AttributeError;
\*   - with no candidate on either side both loops of lines 185-192 are empty
\*     and the chain contributes nothing.
RECURSIVE SpecificChainsLoop(_, _, _, _)
SpecificChainsLoop(high_level, g, k, invalid_chains) ==
    IF k > Len(high_level)
    THEN [error |-> "none", invalid_chains |-> invalid_chains]
    ELSE LET high_level_invalid_chain == high_level[k]
             n == Len(high_level_invalid_chain)
         IN IF n = 2
            THEN SpecificChainsLoop(high_level, g, k + 1,
                                    Append(invalid_chains, high_level_invalid_chain))
            ELSE IF n < 2
            THEN [error |-> "IndexError", invalid_chains |-> invalid_chains]
            ELSE IF high_level_invalid_chain[2].type # "str"
            THEN [error |-> "TypeError", invalid_chains |-> invalid_chains]
            ELSE IF find_modules_that_directly_import(
                        g, high_level_invalid_chain[2].value) # {}
            THEN [error |-> "AttributeError", invalid_chains |-> invalid_chains]
            ELSE IF high_level_invalid_chain[n - 1].type # "str"
            THEN [error |-> "TypeError", invalid_chains |-> invalid_chains]
            ELSE IF find_modules_directly_imported_by(
                        g, high_level_invalid_chain[n - 1].value) # {}
            THEN [error |-> "AttributeError", invalid_chains |-> invalid_chains]
            ELSE SpecificChainsLoop(high_level, g, k + 1, invalid_chains)

\* _convert_chains(invalid_chains, graph): one list of records per chain, a
\* record per two neighbouring items.  get_import_details (line 201) looks the
\* two items up in the graph: an item that is a list cannot be hashed,
\* TypeError.
_convert_chains(invalid_chains, g) ==
    IF \E c \in 1..Len(invalid_chains) :
          \E i \in 1..(Len(invalid_chains[c]) - 1) :
              \/ invalid_chains[c][i].type # "str"
              \/ invalid_chains[c][i + 1].type # "str"
    THEN [error |-> "TypeError", chains |-> <<>>]
    ELSE [error |-> "none",
          chains |-> [c \in 1..Len(invalid_chains) |->
                         ChainData(g, [i \in 1..Len(invalid_chains[c]) |->
                                          invalid_chains[c][i].value])]]

\* _determine_specific_chains(high_level_invalid_chains, graph)
_determine_specific_chains(high_level, g) ==
    LET r == SpecificChainsLoop(high_level, g, 1, <<>>)
    IN IF r.error # "none"
       THEN [error |-> r.error, chains |-> <<>>]
       ELSE _convert_chains(r.invalid_chains, g)

\* _build_layer_chain_data(higher_layer_package, lower_layer_package, graph)
\* The records it can return, one for each order of the chains.
_build_layer_chain_data(p, g) ==
    {[higher_layer |-> p.higher, lower_layer |-> p.lower,
      chains |-> [i \in 1..Len(chains) |-> ChainData(g, chains[i])]] :
        chains \in Orderings(find_shortest_chains(g, p.lower, p.higher))}

\* _check_all_layers_exist_for_container(container, graph): TRUE when it raises.
_check_all_layers_exist_for_container(container, g) ==
    \E k \in 1..Len(layers) :
        /\ ~layers[k].is_optional
        /\ (container \o layers[k].name) \notin g.modules

\* _check_all_containerless_layers_exist(graph): TRUE when it raises.
_check_all_containerless_layers_exist(g) ==
    \E k \in 1..Len(layers) :
        /\ ~layers[k].is_optional
        /\ layers[k].name \notin g.modules

\* _validate_containers(graph): TRUE when it raises.
_validate_containers(g) ==
    \E k \in 1..Len(containers) :
        \/ root_package_name(containers[k]) \notin root_packages
        \/ _check_all_layers_exist_for_container(containers[k], g)

\* _alt_check, lines 219-222: TRUE when validation raises ValueError.
ValidationRaises(g) ==
    IF containers # <<>>
    THEN _validate_containers(g)
    ELSE _check_all_containerless_layers_exist(g)

\* _alt_check, lines 226-235: the loop over the pairs, from the k-th pair on:
\* the lists invalid_chains can end as.
RECURSIVE AltCheckLoop(_, _, _)
AltCheckLoop(g, ps, k) ==
    IF k > Len(ps) THEN {<<>>}
    ELSE {(IF layer_chain_data.chains # <<>> THEN <<layer_chain_data>> ELSE <<>>) \o rest :
             layer_chain_data \in _build_layer_chain_data(ps[k], g),
             rest \in AltCheckLoop(g, ps, k + 1)}

(***************************************************************************)
(* The contracts and graphs the handlers are called with.                  *)
(***************************************************************************)
Required(n) == [name |-> <<n>>, is_optional |-> FALSE]
Optional(n) == [name |-> <<n>>, is_optional |-> TRUE]

TwoLayers == <<Required("high"), Required("low")>>
ThreeLayers == <<Required("high"), Required("mid"), Required("low")>>
OptionalMid == <<Required("high"), Optional("mid"), Required("low")>>

Container1 == <<"c1">>
Container2 == <<"c2">>

\* fixed: imports every graph of the world has, each at line 10.
Worlds ==
    { \* no containers: the layers are top-level packages
      [layers |-> TwoLayers, containers |-> <<>>, roots |-> {"high", "low"},
       modules |-> {<<"high">>, <<"high", "a">>, <<"low">>, <<"low", "b">>},
       fixed |-> {}],
      [layers |-> OptionalMid, containers |-> <<>>, roots |-> {"high", "low"},
       modules |-> {<<"high">>, <<"low">>, <<"low", "b">>},
       fixed |-> {}],
      [layers |-> ThreeLayers, containers |-> <<>>, roots |-> {"high", "low"},
       modules |-> {<<"high">>, <<"low">>},
       fixed |-> {}],
      \* one container
      [layers |-> TwoLayers, containers |-> <<Container1>>, roots |-> {"c1"},
       modules |-> {Container1, Container1 \o <<"high">>, Container1 \o <<"high", "a">>,
                    Container1 \o <<"low">>, Container1 \o <<"low", "b">>},
       fixed |-> {}],
      [layers |-> ThreeLayers, containers |-> <<Container1>>, roots |-> {"c1"},
       modules |-> {Container1 \o <<"high">>, Container1 \o <<"mid">>, Container1 \o <<"mid", "y">>,
                    Container1 \o <<"low">>, Container1 \o <<"low", "x">>},
       fixed |-> {}],
      [layers |-> OptionalMid, containers |-> <<Container1>>, roots |-> {"c1"},
       modules |-> {Container1, Container1 \o <<"high">>, Container1 \o <<"low">>,
                    Container1 \o <<"low", "x">>},
       fixed |-> {}],
      [layers |-> ThreeLayers, containers |-> <<Container1>>, roots |-> {"c1"},
       modules |-> {Container1, Container1 \o <<"high">>, Container1 \o <<"low">>},
       fixed |-> {}],
      \* one container, two routes of two imports from the lower to the higher layer
      [layers |-> TwoLayers, containers |-> <<Container1>>, roots |-> {"c1", "util"},
       modules |-> {Container1, <<"util">>, Container1 \o <<"high">>, Container1 \o <<"low">>},
       fixed |-> {<<Container1 \o <<"low">>, Container1>>, <<Container1, Container1 \o <<"high">>>>,
                  <<Container1 \o <<"low">>, <<"util">>>>,
                  <<<<"util">>, Container1 \o <<"high">>>>}],
      \* two containers
      [layers |-> OptionalMid, containers |-> <<Container1, Container2>>, roots |-> {"c1", "c2"},
       modules |-> {Container1 \o <<"high">>, Container1 \o <<"low">>,
                    Container2 \o <<"high">>, Container2 \o <<"mid">>, Container2 \o <<"low">>},
       fixed |-> {}],
      [layers |-> TwoLayers, containers |-> <<Container1, Container2>>, roots |-> {"c1"},
       modules |-> {Container1 \o <<"high">>, Container1 \o <<"low">>,
                    Container2 \o <<"high">>, Container2 \o <<"low">>},
       fixed |-> {}] }

\* The subsets of S of at most k elements.
RECURSIVE SubsetsUpTo(_, _)
SubsetsUpTo(S, k) ==
    IF k = 0 THEN {{}}
    ELSE LET smaller == SubsetsUpTo(S, k - 1)
         IN smaller \cup {p \cup {x} : p \in smaller, x \in S}

CandidateImports(modules) == {e \in modules \X modules : e[1] # e[2]}

NoPair == [higher |-> <<>>, lower |-> <<>>]
NoResult == [kept |-> TRUE, invalid_chains |-> <<>>]

Init ==
    \E w \in Worlds :
      \E es \in SubsetsUpTo(CandidateImports(w.modules) \ w.fixed, MaxEdges) :
        \E d \in [es -> LineSets] :
          \E ig \in SubsetsUpTo(es \cup w.fixed, MaxIgnore) :
            /\ layers = w.layers
            /\ containers = w.containers
            /\ root_packages = w.roots
            /\ ignore_imports = ig
            /\ graph = [modules |-> w.modules, squashed |-> {},
                        details |-> [e \in es \cup w.fixed |->
                                        IF e \in es THEN d[e] ELSE {10}]]
            /\ original = graph
            /\ pc = "idle"
            /\ method = "none"
            /\ is_kept = TRUE
            /\ removed_imports = [e \in {} |-> {}]
            /\ pairs = <<>>
            /\ yielded = <<>>
            /\ cur = NoPair
            /\ temp_graph = EmptyGraph
            /\ high_level_invalid_chains = <<>>
            /\ result = NoResult
            /\ error = "none"

config == <<layers, containers, ignore_imports, root_packages, original>>

(***************************************************************************)
(* LayersContract.check, one action per step.                              *)
(***************************************************************************)
\* Lines 60-76: pop the ignored imports and start the generator.
CheckBegin ==
    /\ pc = "idle"
    /\ LET popped == pop_imports(graph, ignore_imports)
       IN /\ graph' = popped.graph
          /\ removed_imports' = popped.removed
          /\ pairs' = _generate_module_permutations(popped.graph)
    /\ method' = "check"
    /\ is_kept' = TRUE
    /\ pc' = "for"
    /\ UNCHANGED <<config, yielded, cur, temp_graph, high_level_invalid_chains,
                   result, error>>

\* Lines 76-77: the generator yields the next pair; the graph is copied.
NextPair ==
    /\ pc = "for"
    /\ pairs # <<>>
    /\ cur' = Head(pairs)
    /\ pairs' = Tail(pairs)
    /\ yielded' = Append(yielded, Head(pairs))
    /\ temp_graph' = graph
    /\ pc' = "squash_lower"
    /\ UNCHANGED <<config, graph, method, is_kept, removed_imports,
                   high_level_invalid_chains, result, error>>

\* Line 78.
SquashLower ==
    /\ pc = "squash_lower"
    /\ temp_graph' = _squash_package(cur.lower, temp_graph)
    /\ pc' = "squash_higher"
    /\ UNCHANGED <<config, graph, method, is_kept, removed_imports, pairs, yielded,
                   cur, high_level_invalid_chains, result, error>>

\* Line 79.
SquashHigher ==
    /\ pc = "squash_higher"
    /\ temp_graph' = _squash_package(cur.higher, temp_graph)
    /\ pc' = "delete_others"
    /\ UNCHANGED <<config, graph, method, is_kept, removed_imports, pairs, yielded,
                   cur, high_level_invalid_chains, result, error>>

\* Lines 81-84 with containers configured.
DeleteOthers ==
    /\ pc = "delete_others"
    /\ containers # <<>>
    /\ temp_graph' = DeleteOtherLayers(temp_graph, cur, 1)
    /\ pc' = "query"
    /\ UNCHANGED <<config, graph, method, is_kept, removed_imports, pairs, yielded,
                   cur, high_level_invalid_chains, result, error>>

\* Line 82 without containers: self.containers[0] raises (TypeError on None,
\* IndexError on an empty list) in the first iteration.
DeleteOthersRaises ==
    /\ pc = "delete_others"
    /\ containers = <<>>
    /\ pc' = "raised"
    /\ error' = "TypeError"
    /\ UNCHANGED <<config, graph, method, is_kept, removed_imports, pairs, yielded,
                   cur, temp_graph, high_level_invalid_chains, result>>

\* Lines 86-100.
Query ==
    /\ pc = "query"
    /\ \E layer_chain_data \in LayerChainData(temp_graph, cur) :
          IF layer_chain_data # <<>>
          THEN /\ is_kept' = FALSE
               /\ high_level_invalid_chains' =
                      Append(high_level_invalid_chains, layer_chain_data)
          ELSE UNCHANGED <<is_kept, high_level_invalid_chains>>
    /\ pc' = "for"
    /\ UNCHANGED <<config, graph, method, removed_imports, pairs, yielded, cur,
                   temp_graph, result, error>>

\* Line 107, "import ipdb; ipdb.set_trace()", which every run of check comes
\* to once the generator is exhausted: where ipdb is not installed the import
\* raises ModuleNotFoundError, and where it is, the debugger stops the run and
\* either is continued (Finish) or is quit, which raises BdbQuit.
BreakpointRaises ==
    /\ pc = "for"
    /\ pairs = <<>>
    /\ \E e \in {"ModuleNotFoundError", "BdbQuit"} : error' = e
    /\ pc' = "raised"
    /\ UNCHANGED <<config, graph, method, is_kept, removed_imports, pairs, yielded,
                   cur, temp_graph, high_level_invalid_chains, result>>

\* Lines 102-111 when the debugger of line 107 is continued: the specific
\* chains are determined and the ContractCheck is returned.
Finish ==
    /\ pc = "for"
    /\ pairs = <<>>
    /\ LET r == _determine_specific_chains(high_level_invalid_chains, graph)
       IN IF r.error # "none"
          THEN /\ pc' = "raised"
               /\ error' = r.error
               /\ UNCHANGED result
          ELSE /\ pc' = "returned"
               /\ result' = [kept |-> is_kept, invalid_chains |-> r.chains]
               /\ UNCHANGED error
    /\ UNCHANGED <<config, graph, method, is_kept, removed_imports, pairs, yielded,
                   cur, temp_graph, high_level_invalid_chains>>

(***************************************************************************)
(* LayersContract._alt_check, as one action.                               *)
(***************************************************************************)
AltCheck ==
    /\ pc = "idle"
    /\ method' = "_alt_check"
    /\ LET popped == pop_imports(graph, ignore_imports)
           ps == _generate_module_permutations(popped.graph)
       IN /\ removed_imports' = popped.removed
          /\ IF ValidationRaises(popped.graph)
             THEN /\ graph' = popped.graph
                  /\ pc' = "raised"
                  /\ error' = "ValueError"
                  /\ UNCHANGED <<is_kept, result, yielded>>
             ELSE \E invalid_chains \in AltCheckLoop(popped.graph, ps, 1) :
                  /\ graph' = add_imports(popped.graph, popped.removed)
                  /\ yielded' = ps
                  /\ is_kept' = (invalid_chains = <<>>)
                  /\ result' = [kept |-> invalid_chains = <<>>,
                                invalid_chains |-> invalid_chains]
                  /\ pc' = "returned"
                  /\ UNCHANGED error
    /\ UNCHANGED <<config, pairs, cur, temp_graph, high_level_invalid_chains>>

Next ==
    \/ CheckBegin
    \/ NextPair
    \/ SquashLower
    \/ SquashHigher
    \/ DeleteOthers
    \/ DeleteOthersRaises
    \/ Query
    \/ BreakpointRaises
    \/ Finish
    \/ AltCheck

Spec == Init /\ [][Next]_vars

(***************************************************************************)
(* Vocabulary of the properties.                                           *)
(***************************************************************************)
Terminated == pc \in {"returned", "raised"}

\* The containers the layers are resolved in; <<>> is the pass without one.
QuasiContainerSet ==
    IF containers = <<>> THEN {<<>>} ELSE {containers[k] : k \in 1..Len(containers)}

\* resolve(layer k, container c): the container's name, then the layer's.
Resolve(k, c) == c \o layers[k].name

\* The modules of g in the subtree of m.
Subtree(g, m) == {x \in g.modules : IsPrefix(m, x)}

\* The caller's graph without the ignored imports.
Filtered ==
    [original EXCEPT !.details =
        [e \in Imports(original) \ ignore_imports |-> original.details[e]]]

RECURSIVE ReachableFrom(_, _)
ReachableFrom(g, S) ==
    LET further == S \cup {e[2] : e \in {x \in Imports(g) : x[1] \in S}}
    IN IF further = S THEN S ELSE ReachableFrom(g, further)

\* Some module of the subtree of `from` imports, directly or through other
\* modules, some module of the subtree of `to`.
SubtreeReaches(g, from, to) ==
    \E a \in Subtree(g, from) :
        \E n \in find_modules_directly_imported_by(g, a) :
            ReachableFrom(g, {n}) \cap Subtree(g, to) # {}

\* The triples <<container, i, j>> of a layer i declared above a layer j, both
\* resolved to modules of the graph.
PresentTriples ==
    {t \in QuasiContainerSet \X (1..Len(layers)) \X (1..Len(layers)) :
        /\ t[2] < t[3]
        /\ Resolve(t[2], t[1]) \in original.modules
        /\ Resolve(t[3], t[1]) \in original.modules}

ForbiddenPathExists ==
    \E t \in PresentTriples :
        SubtreeReaches(Filtered, Resolve(t[3], t[1]), Resolve(t[2], t[1]))

MissingRequiredLayer ==
    \E c \in QuasiContainerSet : \E k \in 1..Len(layers) :
        ~layers[k].is_optional /\ Resolve(k, c) \notin original.modules

InvalidContainer ==
    \E c \in QuasiContainerSet : c # <<>> /\ c[1] \notin root_packages

PassesValidation == ~MissingRequiredLayer /\ ~InvalidContainer

(***************************************************************************)
(* C1.  For every graph and every contract that passes validation, check   *)
(* returns, and it returns kept = false exactly when, for some container   *)
(* and some layers i < j whose modules both exist, the ignore-filtered     *)
(* graph has an import path from the lower layer's subtree to the higher   *)
(* layer's subtree.                                                        *)
(***************************************************************************)
C1_KeptIffNoForbiddenPath ==
    (method = "check" /\ Terminated /\ PassesValidation) =>
        /\ pc = "returned"
        /\ (result.kept = FALSE) <=> ForbiddenPathExists

(***************************************************************************)
(* C2.  After check returns, the caller's graph has the nodes, the edges   *)
(* and the line numbers it had before the call.                            *)
(***************************************************************************)
C2_GraphUnchangedAfterCheck ==
    (method = "check" /\ pc = "returned") => graph = original

(***************************************************************************)
(* C3.  check fails with a configuration error, before any pair is         *)
(* enumerated, exactly when a non-optional layer's module is absent from   *)
(* the graph for some container (or at top level without containers).      *)
(***************************************************************************)
C3_ConfigurationErrorIffMissingLayer ==
    (method = "check" /\ Terminated) =>
        ((pc = "raised" /\ error = "ValueError" /\ yielded = <<>>) <=> MissingRequiredLayer)

(***************************************************************************)
(* C4.  On every exit path of a check that popped the ignored imports      *)
(* (return or exception), every popped import is back in the caller's      *)
(* graph with its line numbers.                                            *)
(***************************************************************************)
C4_IgnoredImportsRestoredOnEveryExit ==
    Terminated =>
        \A e \in ignore_imports :
            /\ e \in Imports(graph)
            /\ graph.details[e] = original.details[e]

(***************************************************************************)
(* C5.  Layers [high, mid, low] with the imports low.x -> mid.y and        *)
(* mid.y -> high: check returns a chain list with a chain of two imports   *)
(* that starts at low.x and ends in the high layer's module.               *)
(***************************************************************************)
C5_Scenario ==
    /\ Len(layers) = 3
    /\ \E c \in QuasiContainerSet :
        /\ Imports(original) = {<<Resolve(3, c) \o <<"x">>, Resolve(2, c) \o <<"y">>>>,
                                <<Resolve(2, c) \o <<"y">>, Resolve(1, c)>>}
        /\ {Resolve(1, c), Resolve(2, c), Resolve(3, c)} \subseteq original.modules
    /\ ignore_imports = {}

\* C5: in that scenario check returns, and one returned chain has two imports,
\* from low.x to the high layer's module.
C5_TransitiveViolationReported ==
    (method = "check" /\ Terminated /\ C5_Scenario) =>
        /\ pc = "returned"
        /\ \E n \in 1..Len(result.invalid_chains) :
            LET chain == result.invalid_chains[n]
            IN /\ Len(chain) = 2
               /\ \E c \in QuasiContainerSet :
                    /\ chain[1].importer = Resolve(3, c) \o <<"x">>
                    /\ chain[2].imported = Resolve(1, c)

(***************************************************************************)
(* C6.  Every record of every chain check returns is an import of the      *)
(* caller's original graph with that import's line numbers; and the one    *)
(* import low.b -> high.a, at line 10, between two layers [high, low] is   *)
(* returned as the single record {low.b, high.a, (10,)}.                   *)
(***************************************************************************)
C6_DirectScenario ==
    /\ Len(layers) = 2
    /\ ignore_imports = {}
    /\ \E c \in QuasiContainerSet :
        /\ Imports(original) = {<<Resolve(2, c) \o <<"b">>, Resolve(1, c) \o <<"a">>>>}
        /\ original.details[<<Resolve(2, c) \o <<"b">>, Resolve(1, c) \o <<"a">>>>] = {10}
        /\ {Resolve(1, c), Resolve(2, c)} \subseteq original.modules

\* C6: every returned record is an import of the original graph with its line
\* numbers, and the direct scenario returns its single record.
C6_ChainsAreAuthentic ==
    /\ (method = "check" /\ pc = "returned") =>
          \A n \in 1..Len(result.invalid_chains) :
              \A i \in 1..Len(result.invalid_chains[n]) :
                  LET r == result.invalid_chains[n][i]
                  IN /\ <<r.importer, r.imported>> \in Imports(original)
                     /\ r.line_numbers = original.details[<<r.importer, r.imported>>]
    /\ (method = "check" /\ Terminated /\ C6_DirectScenario) =>
          /\ pc = "returned"
          /\ \E c \in QuasiContainerSet :
                result.invalid_chains =
                    << << [importer |-> Resolve(2, c) \o <<"b">>,
                           imported |-> Resolve(1, c) \o <<"a">>,
                           line_numbers |-> {10}] >> >>

(***************************************************************************)
(* C7.  When the path query of a pair runs, the clone holds no module of   *)
(* the subtree of any other configured layer, resolved in the container    *)
(* the pair belongs to.                                                    *)
(***************************************************************************)
PairContainer(p) ==
    CHOOSE c \in QuasiContainerSet : \E k \in 1..Len(layers) : Resolve(k, c) = p.higher

\* C7: at the path query, the clone holds no module of another layer of the
\* pair's container.
C7_OtherLayersPruned ==
    pc = "query" =>
        \A k \in 1..Len(layers) :
            LET module == Resolve(k, PairContainer(cur))
            IN module \notin {cur.higher, cur.lower} => Subtree(temp_graph, module) = {}

(***************************************************************************)
(* C8.  _generate_module_permutations yields exactly the pairs             *)
(* (resolve(layers[i], c), resolve(layers[j], c)) over every container c   *)
(* and every i < j, adjacent or not, whose two modules are in the graph;   *)
(* the higher layer's module comes first and each pair is yielded once.    *)
(***************************************************************************)
Generated == yielded \o pairs

\* C8: the generator's output is, as a set, the pairs of the present triples,
\* with one yield per triple, no pair twice, and only modules of the graph.
C8_PermutationsExact ==
    (pc # "idle" /\ ~(method = "_alt_check" /\ pc = "raised")) =>
        /\ {Generated[n] : n \in 1..Len(Generated)} =
               {[higher |-> Resolve(t[2], t[1]), lower |-> Resolve(t[3], t[1])] :
                    t \in PresentTriples}
        /\ Len(Generated) = Cardinality(PresentTriples)
        /\ \A m, n \in 1..Len(Generated) : m # n => Generated[m] # Generated[n]
        /\ \A n \in 1..Len(Generated) :
               Generated[n].higher \in graph.modules /\ Generated[n].lower \in graph.modules

\* The generator has run over three layers of which the middle one is absent,
\* and over three present layers: the pair of the first and the third layer
\* is among the pairs.
C8_Witness ==
    /\ pc = "for"
    /\ Len(layers) = 3
    /\ \E n \in 1..Len(Generated) : \E c \in QuasiContainerSet :
        /\ Generated[n] = [higher |-> Resolve(1, c), lower |-> Resolve(3, c)]
        /\ Resolve(2, c) \in graph.modules
    /\ \E c \in QuasiContainerSet : Resolve(2, c) \notin graph.modules

(***************************************************************************)
(* C9.  _squash_package(P) leaves P as the only node of P's subtree and    *)
(* preserves the imports that cross the subtree's boundary, collapsed onto *)
(* P; imports between two modules outside the subtree are unchanged.       *)
(***************************************************************************)
\* The package the running squash step collapses.
SquashedPackage == IF pc = "squash_lower" THEN cur.lower ELSE cur.higher

\* What the squash keeps, whatever the collapsed imports carry.
SquashKeepsBoundary(before, after, P) ==
    LET members == Subtree(before, P)
        outside == before.modules \ members
    IN /\ Subtree(after, P) = {P}
       /\ after.modules = outside \cup {P}
       /\ \A m \in outside :
            /\ (<<m, P>> \in Imports(after)) <=>
                   (\E x \in members : <<m, x>> \in Imports(before))
            /\ (<<P, m>> \in Imports(after)) <=>
                   (\E x \in members : <<x, m>> \in Imports(before))
       /\ \A m, n \in outside :
            /\ (<<m, n>> \in Imports(after)) <=> (<<m, n>> \in Imports(before))
            /\ <<m, n>> \in Imports(before) => after.details[<<m, n>>] = before.details[<<m, n>>]

\* The line numbers of the imports a collapsed import stands for.
LinesInto(before, m, P) ==
    UNION {before.details[e] : e \in {x \in Imports(before) : x[1] = m /\ IsPrefix(P, x[2])}}

LinesOutOf(before, P, m) ==
    UNION {before.details[e] : e \in {x \in Imports(before) : IsPrefix(P, x[1]) /\ x[2] = m}}

\* C9 as stated: each collapsed import carries the line numbers of the
\* imports it stands for, and no import is invented.
SquashAsClaimed(before, after, P) ==
    /\ SquashKeepsBoundary(before, after, P)
    /\ <<P, P>> \notin Imports(after)
    /\ \A e \in Imports(after) :
        /\ (e[2] = P /\ e[1] # P) => after.details[e] = LinesInto(before, e[1], P)
        /\ (e[1] = P /\ e[2] # P) => after.details[e] = LinesOutOf(before, P, e[2])

SquashStepAsClaimed ==
    pc \in {"squash_lower", "squash_higher"} =>
        SquashAsClaimed(temp_graph, temp_graph', SquashedPackage)

\* C9 as stated: every squash step keeps the boundary imports, collapsed onto
\* the package with their line numbers, and invents none.
C9_SquashKeepsLineNumbers == [][SquashStepAsClaimed]_vars

\* C9 as amended: after _squash_package(P), P is flagged squashed and is the only
\* node of its subtree; an outside module imports P iff it imported a member
\* before, P imports an outside module iff a member imported it before, and
\* every such collapsed import carries no line numbers; the imports between
\* two outside modules are unchanged, line numbers included.
SquashAsAmended(before, after, P) ==
    /\ SquashKeepsBoundary(before, after, P)
    /\ P \in after.squashed
    /\ \A e \in Imports(after) : (e[1] = P \/ e[2] = P) => after.details[e] = {}

SquashStepAsAmended ==
    pc \in {"squash_lower", "squash_higher"} =>
        SquashAsAmended(temp_graph, temp_graph', SquashedPackage)

\* C9 as amended: every squash step keeps the boundary imports, collapsed onto
\* the package without line numbers, and leaves the outside imports alone.
C9_SquashKeepsBoundaryWithoutLines == [][SquashStepAsAmended]_vars

\* The lower package has been squashed: a module under it imported an outside
\* module and an outside module imported one of its modules, both imports now
\* being imports of the package.
C9_Witness ==
    /\ pc = "squash_higher"
    /\ \E x \in find_descendants(graph, cur.lower) :
         \E m \in graph.modules \ Subtree(graph, cur.lower) :
            /\ <<x, m>> \in Imports(graph)
            /\ x \notin temp_graph.modules
            /\ <<cur.lower, m>> \in Imports(temp_graph)
    /\ \E n \in graph.modules \ Subtree(graph, cur.lower) :
         /\ <<n, cur.lower>> \in Imports(temp_graph)
         /\ \E x \in Subtree(graph, cur.lower) : <<n, x>> \in Imports(graph)

(***************************************************************************)
(* C10.  For every coarse chain of three or more nodes the detector        *)
(* produces, with S the modules of the lower subtree that import its       *)
(* second node and E the modules of the higher subtree its second-to-last  *)
(* node imports: S and E are non-empty and check returns |S| + |E| - 1     *)
(* chains for it, with the middle segment kept, every module of S first in *)
(* one and every module of E last in one.                                  *)
(***************************************************************************)
CoarseChains ==
    UNION {{high_level_invalid_chains[n][i].value :
                i \in 1..Len(high_level_invalid_chains[n])} :
             n \in 1..Len(high_level_invalid_chains)}

StartingModules(c) ==
    {m \in find_modules_that_directly_import(graph, c[2]) : is_descendant_of(m, c[1])}

EndingModules(c) ==
    {m \in find_modules_directly_imported_by(graph, c[Len(c) - 1]) :
        is_descendant_of(m, c[Len(c)])}

\* The nodes of a returned chain of records.
Nodes(chain) ==
    [i \in 1..(Len(chain) + 1) |-> IF i = 1 THEN chain[1].importer ELSE chain[i - 1].imported]

EmittedFor(c) ==
    {n \in 1..Len(result.invalid_chains) :
        LET ns == Nodes(result.invalid_chains[n])
        IN /\ Len(ns) = Len(c)
           /\ \A i \in 2..(Len(c) - 1) : ns[i] = c[i]
           /\ ns[1] \in StartingModules(c)
           /\ ns[Len(c)] \in EndingModules(c)}

\* C10: every coarse chain of three or more nodes gets its |S| + |E| - 1
\* returned chains.
C10_OneChainPerStartAndEnd ==
    (method = "check" /\ Terminated) =>
        \A c \in CoarseChains :
            Len(c) >= 3 =>
                /\ StartingModules(c) # {}
                /\ EndingModules(c) # {}
                /\ pc = "returned"
                /\ Cardinality(EmittedFor(c)) =
                       Cardinality(StartingModules(c)) + Cardinality(EndingModules(c)) - 1
                /\ \A m \in StartingModules(c) :
                       \E n \in EmittedFor(c) : Nodes(result.invalid_chains[n])[1] = m
                /\ \A m \in EndingModules(c) :
                       \E n \in EmittedFor(c) : Nodes(result.invalid_chains[n])[Len(c)] = m

====
